---- MODULE Spec2Model ----
(***************************************************************************)
(* Model of crates/hbone/src/lib.rs: the half-close drop counter, the      *)
(* H2 stream read and write halves with their tokio wrappers, and the      *)
(* ping/pong liveness watchdog.                                            *)
(*                                                                         *)
(* The specifications share the variables; each leaves the variables of    *)
(* the other components unchanged:                                         *)
(*   Spec              DropCounter::new / Drop for DropCounter             *)
(*   SpecStream        one call on an H2Stream: poll_bytes, poll_read of   *)
(*                     TokioH2Stream, poll_write_buf, poll_flush,          *)
(*                     poll_shutdown                                       *)
(*   SpecRW            successive RWStream::poll_read calls on one stream  *)
(*   SpecTokio         successive TokioH2Stream::poll_read calls           *)
(*   SpecWatchdog      do_ping_pong                                        *)
(*   SpecWatchdogFair  do_ping_pong with the runtime's scheduling          *)
(***************************************************************************)
EXTENDS Integers, Sequences, FiniteSets

(***************************************************************************)
(* Bounds of the model.                                                    *)
(***************************************************************************)
\* number of logical streams admitted on the connection
MaxStreams == 3

\* AtomicU16: the active-stream count is an unsigned 16-bit integer
U16 == 65536

Streams == 1..MaxStreams
Halves == {"read", "write"}

VARIABLES
  \* ---- drop counter ----
  active_count,   \* Arc<AtomicU16>: the connection's active-stream count
  st,             \* per stream: "none" | "admitted" (count incremented) | "minted"
  half_dropped,   \* per stream: strong count of the shared Arc<()> marker
  tok,            \* per stream, per half: position of that half's DropCounter
  decs,           \* per stream: number of fetch_sub(1) its tokens executed
  decBy,          \* per stream: the half whose drop executed fetch_sub, or "none"
  relOrder,       \* per stream: the halves in the order their drop took the marker
  wrapped,        \* TRUE once fetch_sub(1) has executed on a count of 0
  \* ---- H2Stream: the last call made on the stream ----
  op,             \* the operation called
  arg,            \* the caller's argument: the Bytes pushed or the ReadBuf given
  res,            \* the Poll<io::Result<..>> the call returned
  trace,          \* the calls made on the h2 stream during the call, with their answers
  filled,         \* the filled part of the caller's ReadBuf after the call
  \* ---- a stream read through a wrapper, call after call ----
  recv_stream,    \* the h2 RecvStream: open, ended, or reset with an error
  recvd,          \* the bytes poll_data has yielded so far, in order
  rw_buf,         \* RWStream.buf: the leftover of the last chunk pulled
  delivered,      \* the bytes put into the callers' ReadBufs so far, in order
  overflowed,     \* the bytes of the chunks TokioH2Stream refused for overflow
  \* ---- do_ping_pong ----
  now,            \* the clock, in seconds since the watchdog started
  wpc,            \* where the watchdog task is
  deadline,       \* when the timer it waits on fires (sleep or timeout)
  dropped,        \* Arc<AtomicBool>: the connection driver has exited
  pings,          \* number of ping_pong.ping calls
  pongs,          \* number of pongs received
  pingErrs,       \* number of pings that ended with an error
  signals,        \* number of tx.send(()) calls
  exitedAt,       \* the time the watchdog returned, -1 before
  exitWhy         \* the return statement it took, "" before

counterVars == <<active_count, st, half_dropped, tok, decs, decBy, relOrder, wrapped>>
streamVars == <<op, arg, res, trace, filled>>

watchdogVars ==
  <<now, wpc, deadline, dropped, pings, pongs, pingErrs, signals, exitedAt, exitWhy>>

readerVars == <<recv_stream, recvd, rw_buf, delivered, overflowed>>

vars == <<counterVars, streamVars, readerVars, watchdogVars>>

(***************************************************************************)
(* Drop counter                                                            *)
(***************************************************************************)
\* Arc::into_inner on a marker with strong count n: Some (TRUE) exactly when
\* this reference is the last one; the reference is given up either way.
IntoInnerIsSome(n) == n = 1

\* AtomicU16::fetch_sub(1): wrapping subtraction
FetchSub1(c) == (c + U16 - 1) % U16

\* AtomicU16::fetch_add(1): wrapping addition
FetchAdd1(c) == (c + 1) % U16

InitCounter ==
  /\ active_count = 0
  /\ st = [s \in Streams |-> "none"]
  /\ half_dropped = [s \in Streams |-> 0]
  /\ tok = [s \in Streams |-> [h \in Halves |-> "absent"]]
  /\ decs = [s \in Streams |-> 0]
  /\ decBy = [s \in Streams |-> "none"]
  /\ relOrder = [s \in Streams |-> <<>>]
  /\ wrapped = FALSE

\* Stream admission: the connection owner increments the count by one
\* before the token pair of the stream is minted.
Admit(s) ==
  /\ st[s] = "none"
  /\ active_count' = FetchAdd1(active_count)
  /\ st' = [st EXCEPT ![s] = "admitted"]
  /\ UNCHANGED <<half_dropped, tok, decs, decBy, relOrder, wrapped>>

\* DropCounter::new: two tokens sharing one marker (strong count 2) and
\* the counter; the counter is not touched.
DropCounterNew(s) ==
  /\ st[s] = "admitted"
  /\ st' = [st EXCEPT ![s] = "minted"]
  /\ half_dropped' = [half_dropped EXCEPT ![s] = 2]
  /\ tok' = [tok EXCEPT ![s] = [h \in Halves |-> "live"]]
  /\ UNCHANGED <<active_count, decs, decBy, relOrder, wrapped>>

\* Mutant: the ownership test is left out, every drop decrements.
DropBranch_always(isSome) == "fetch_sub"

\* Mutant: the test is is_some(), the last owner of the marker decrements.
DropBranch_is_some(isSome) == IF isSome THEN "fetch_sub" ELSE "other_remains"

\* The branch Drop takes on the result of Arc::into_inner(half_dropped):
\* is_none() selects the fetch_sub branch.
DropBranch(isSome) == IF isSome THEN "other_remains" ELSE "fetch_sub"

\* Drop::drop, first step: swap the marker out for a fresh Arc and call
\* Arc::into_inner on the old one (one atomic decrement of the strong count).
DropIntoInner(s, h) ==
  /\ tok[s][h] = "live"
  /\ half_dropped' = [half_dropped EXCEPT ![s] = @ - 1]
  /\ tok' = [tok EXCEPT ![s][h] = DropBranch(IntoInnerIsSome(half_dropped[s]))]
  /\ relOrder' = [relOrder EXCEPT ![s] = Append(@, h)]
  /\ UNCHANGED <<active_count, st, decs, decBy, wrapped>>

\* Drop::drop, is_none() branch: active_count.fetch_sub(1, SeqCst)
DropFetchSub(s, h) ==
  /\ tok[s][h] = "fetch_sub"
  /\ active_count' = FetchSub1(active_count)
  /\ wrapped' = (wrapped \/ active_count = 0)
  /\ decs' = [decs EXCEPT ![s] = @ + 1]
  /\ decBy' = [decBy EXCEPT ![s] = h]
  /\ tok' = [tok EXCEPT ![s][h] = "dropped"]
  /\ UNCHANGED <<st, half_dropped, relOrder>>

\* Drop::drop, else branch: only a trace line, the count is left alone
DropOtherRemains(s, h) ==
  /\ tok[s][h] = "other_remains"
  /\ tok' = [tok EXCEPT ![s][h] = "dropped"]
  /\ UNCHANGED <<active_count, st, half_dropped, decs, decBy, relOrder, wrapped>>

(***************************************************************************)
(* H2Stream: values                                                        *)
(***************************************************************************)
\* longest chunk of bytes received or pushed
MaxChunk == 3
\* most empty, non-final chunks poll_data yields in a row
MaxSpurious == 1
\* largest remaining space of a caller's ReadBuf
MaxBuf == 3

\* The chunk of n bytes: its i-th byte is i, so a prefix differs from any
\* other slice of the same length.
Chunk(n) == [i \in 1..n |-> i]
Chunks == {Chunk(n) : n \in 0..MaxChunk}

\* h2::Reason: the reasons the code names, and one standing for the others
Reasons == {"NO_ERROR", "CANCEL", "STREAM_CLOSED", "PROTOCOL_ERROR"}

\* h2::Error: an I/O error (is_io(), no reason), or an error with or without
\* a reset reason
H2Io(kind) == [io |-> TRUE, iokind |-> kind, reason |-> "none"]
H2Reason(r) == [io |-> FALSE, iokind |-> "none", reason |-> r]
H2Errors == {H2Io("ConnectionReset")} \cup {H2Reason(r) : r \in Reasons \cup {"none"}}

NA == [k |-> "na"]
AnsPending == [k |-> "pending"]
AnsNone == [k |-> "none"]
AnsOk == [k |-> "ok"]
AnsErr(e) == [k |-> "err", e |-> e]
AnsData(b, eos) == [k |-> "data", bytes |-> b, eos |-> eos]
AnsCap(g) == [k |-> "ok", n |-> g]
AnsReason(r) == [k |-> "ok", reason |-> r]

\* Poll<io::Result<T>>
Pending == [k |-> "pending"]
OkBytes(b) == [k |-> "ok_bytes", bytes |-> b]
OkN(n) == [k |-> "ok_n", n |-> n]
OkUnit == [k |-> "ok"]
IoErr(kind, cause) == [k |-> "err", kind |-> kind, cause |-> cause]

NoCause == [c |-> "none"]
IoCause == [c |-> "io"]
H2Cause(e) == [c |-> "h2", e |-> e]
OverflowCause(rem) == [c |-> "overflow", remaining |-> rem]

\* fn h2_to_io_error: an I/O error is unwrapped, anything else is wrapped
\* with Error::other
h2_to_io_error(e) ==
  IF e.io THEN IoErr(e.iokind, IoCause) ELSE IoErr("Other", H2Cause(e))

InitStream ==
  /\ op = "none"
  /\ arg = NA
  /\ res = NA
  /\ trace = <<>>
  /\ filled = <<>>

(***************************************************************************)
(* H2StreamReadHalf::poll_bytes                                            *)
(***************************************************************************)
\* what RecvStream::poll_data can answer last in a call: an empty chunk
\* that is not at end of stream is never the last answer, the loop polls
\* again after it.  is_end_stream() is read for empty chunks only.
PollFinals ==
  {AnsPending, AnsNone, AnsData(<<>>, TRUE)}
    \cup {AnsData(b, FALSE) : b \in Chunks \ {<<>>}}
    \cup {AnsErr(e) : e \in H2Errors}

Spurious == AnsData(<<>>, FALSE)

\* the answers of the successive poll_data calls: n spurious chunks, then f
Polls(n, f) == [i \in 1..(n + 1) |-> IF i <= n THEN Spurious ELSE f]

\* Mutant: the credit is not released.
poll_bytes_data_no_release(tr, buf) == [res |-> OkBytes(buf), trace |-> tr]

\* Some(Ok(buf)) arm: release_capacity(buf.len()), then return the chunk
poll_bytes_data(tr, buf) ==
  [res |-> OkBytes(buf),
   trace |-> Append(tr, [c |-> "release_capacity", n |-> Len(buf)])]

\* Mutant: the STREAM_CLOSED arm is missing, the reason falls to the wrapper.
poll_bytes_err_no_stream_closed(e) ==
  IF e.reason \in {"NO_ERROR", "CANCEL"} THEN OkBytes(<<>>)
  ELSE h2_to_io_error(e)

\* Some(Err(e)) arm: the match on e.reason()
poll_bytes_err(e) ==
  IF e.reason \in {"NO_ERROR", "CANCEL"} THEN OkBytes(<<>>)
  ELSE IF e.reason = "STREAM_CLOSED" THEN IoErr("BrokenPipe", H2Cause(e))
  ELSE h2_to_io_error(e)

\* Mutant: an empty chunk is never taken for a spurious wakeup.
poll_bytes_retry_never(buf, eos) == FALSE

\* the guard of the retry arm: buf.is_empty() && !recv_stream.is_end_stream()
poll_bytes_retry(buf, eos) == buf = <<>> /\ ~eos

\* the loop of poll_bytes over the answers of poll_data
RECURSIVE poll_bytes(_, _)
poll_bytes(polls, tr) ==
  IF polls = <<>> THEN [res |-> Pending, trace |-> tr]
  ELSE
    LET o == Head(polls)
        tr1 == Append(tr, [c |-> "poll_data", r |-> o])
    IN CASE o.k = "pending" -> [res |-> Pending, trace |-> tr1]
         [] o.k = "none" -> [res |-> OkBytes(<<>>), trace |-> tr1]
         [] o.k = "data" /\ poll_bytes_retry(o.bytes, o.eos) -> poll_bytes(Tail(polls), tr1)
         [] o.k = "data" /\ ~poll_bytes_retry(o.bytes, o.eos) -> poll_bytes_data(tr1, o.bytes)
         [] o.k = "err" -> [res |-> poll_bytes_err(o.e), trace |-> tr1]

PollBytes ==
  \E n \in 0..MaxSpurious, f \in PollFinals :
    LET r == poll_bytes(Polls(n, f), <<>>)
    IN /\ op' = "poll_bytes"
       /\ arg' = NA
       /\ res' = r.res
       /\ trace' = r.trace
       /\ filled' = <<>>

(***************************************************************************)
(* impl AsyncRead for TokioH2Stream                                        *)
(***************************************************************************)
\* the caller's ReadBuf: what it holds already and its remaining space
Prefills == {<<>>, <<0>>}
ReadBufs == [filled : Prefills, remaining : 0..MaxBuf]

\* Mutant: the chunk is cut to the remaining space instead of failing.
tokio_read_map_truncate(r, buf) ==
  IF r.k = "ok_bytes"
  THEN [res |-> OkUnit,
        filled |-> buf.filled \o SubSeq(r.bytes, 1,
                     IF buf.remaining < Len(r.bytes) THEN buf.remaining ELSE Len(r.bytes))]
  ELSE [res |-> r, filled |-> buf.filled]

\* Mutant: on overflow the part of the chunk that fits is put before failing.
tokio_read_map_partial(r, buf) ==
  IF r.k = "ok_bytes"
  THEN IF buf.remaining < Len(r.bytes)
       THEN [res |-> IoErr("Other", OverflowCause(buf.remaining)),
             filled |-> buf.filled \o SubSeq(r.bytes, 1, buf.remaining)]
       ELSE [res |-> OkUnit, filled |-> buf.filled \o r.bytes]
  ELSE [res |-> r, filled |-> buf.filled]

\* the closure mapped over the result of poll_bytes
tokio_read_map(r, buf) ==
  IF r.k = "ok_bytes"
  THEN IF buf.remaining < Len(r.bytes)
       THEN [res |-> IoErr("Other", OverflowCause(buf.remaining)), filled |-> buf.filled]
       ELSE [res |-> OkUnit, filled |-> buf.filled \o r.bytes]
  ELSE [res |-> r, filled |-> buf.filled]

TokioPollRead ==
  \E n \in 0..MaxSpurious, f \in PollFinals, buf \in ReadBufs :
    LET r == poll_bytes(Polls(n, f), <<>>)
        m == tokio_read_map(r.res, buf)
    IN /\ op' = "tokio_poll_read"
       /\ arg' = buf
       /\ res' = m.res
       /\ trace' = r.trace
       /\ filled' = m.filled

(***************************************************************************)
(* H2StreamWriteHalf                                                       *)
(***************************************************************************)
\* what SendStream::poll_capacity, send_data and poll_reset can answer
CapAnswers(buf) ==
  {AnsPending, AnsNone} \cup {AnsCap(g) : g \in 0..Len(buf)}
    \cup {AnsErr(e) : e \in H2Errors}
SendAnswers == {AnsOk} \cup {AnsErr(e) : e \in H2Errors}
\* poll_reset answers a reset as Ok(reason); its Err is an error without reason
ResetErrors == {H2Io("ConnectionReset"), H2Reason("none")}
ResetAnswers ==
  {AnsPending} \cup {AnsReason(r) : r \in Reasons} \cup {AnsErr(e) : e \in ResetErrors}

\* fn write_slice: send_data(buf, end_of_stream).map_err(h2_to_io_error)
write_slice(buf, end_of_stream, sendA) ==
  LET ret == IF sendA.k = "ok" THEN OkUnit ELSE h2_to_io_error(sendA.e)
  IN [ret |-> ret,
      ev |-> [c |-> "write_slice", bytes |-> buf, eos |-> end_of_stream,
              send |-> sendA, ret |-> ret]]

\* Mutant: the write path treats NO_ERROR as poll_shutdown does, as success.
write_reset_no_error_ok(resetA) ==
  CASE resetA.k = "pending" -> Pending
    [] resetA.k = "ok" /\ resetA.reason = "NO_ERROR" -> OkN(0)
    [] resetA.k = "ok" /\ resetA.reason \in {"CANCEL", "STREAM_CLOSED"} ->
         IoErr("BrokenPipe", NoCause)
    [] resetA.k = "ok" /\ resetA.reason \notin {"NO_ERROR", "CANCEL", "STREAM_CLOSED"} ->
         IoErr("Other", H2Cause(H2Reason(resetA.reason)))
    [] resetA.k = "err" -> h2_to_io_error(resetA.e)

\* poll_write_buf after a failed capacity or send: the match on poll_reset
write_reset(resetA) ==
  CASE resetA.k = "pending" -> Pending
    [] resetA.k = "ok" /\ resetA.reason \in {"NO_ERROR", "CANCEL", "STREAM_CLOSED"} ->
         IoErr("BrokenPipe", NoCause)
    [] resetA.k = "ok" /\ resetA.reason \notin {"NO_ERROR", "CANCEL", "STREAM_CLOSED"} ->
         h2_to_io_error(H2Reason(resetA.reason))
    [] resetA.k = "err" -> h2_to_io_error(resetA.e)

\* Mutant: the whole chunk is sent and reported, whatever was granted.
write_granted_whole(buf, cnt, sendA) ==
  LET w == write_slice(buf, FALSE, sendA)
  IN [cnt |-> IF w.ret.k = "ok" THEN OkN(Len(buf)) ELSE NA, ev |-> w.ev]

\* Some(Ok(cnt)) arm: write_slice(buf.slice(..cnt), false).ok().map(|()| cnt)
write_granted(buf, cnt, sendA) ==
  LET w == write_slice(SubSeq(buf, 1, cnt), FALSE, sendA)
  IN [cnt |-> IF w.ret.k = "ok" THEN OkN(cnt) ELSE NA, ev |-> w.ev]

\* fn poll_write_buf
poll_write_buf(buf, capA, sendA, resetA) ==
  IF buf = <<>> THEN [res |-> OkN(0), trace |-> <<>>]
  ELSE
    LET tr1 == <<[c |-> "reserve_capacity", n |-> Len(buf)],
                 [c |-> "poll_capacity", r |-> capA]>>
        fallback(tr) == [res |-> write_reset(resetA),
                         trace |-> Append(tr, [c |-> "poll_reset", r |-> resetA])]
    IN CASE capA.k = "pending" -> [res |-> Pending, trace |-> tr1]
         [] capA.k = "none" -> [res |-> OkN(0), trace |-> tr1]
         [] capA.k = "ok" ->
              LET w == write_granted(buf, capA.n, sendA)
              IN IF w.cnt # NA
                 THEN [res |-> w.cnt, trace |-> Append(tr1, w.ev)]
                 ELSE fallback(Append(tr1, w.ev))
         [] capA.k = "err" -> fallback(tr1)

\* the answers a call consults: send_data only after a grant, poll_reset
\* only after a failed capacity or send
SendAnswersFor(buf, capA) ==
  IF buf # <<>> /\ capA.k = "ok" THEN SendAnswers ELSE {NA}
ResetAnswersFor(buf, capA, sendA) ==
  IF buf # <<>> /\ (capA.k = "err" \/ sendA.k = "err") THEN ResetAnswers ELSE {NA}

PollWriteBuf ==
  \E buf \in Chunks :
    \E capA \in (IF buf = <<>> THEN {NA} ELSE CapAnswers(buf)) :
      \E sendA \in SendAnswersFor(buf, capA) :
        \E resetA \in ResetAnswersFor(buf, capA, sendA) :
          LET r == poll_write_buf(buf, capA, sendA, resetA)
          IN /\ op' = "poll_write_buf"
             /\ arg' = [buf |-> buf]
             /\ res' = r.res
             /\ trace' = r.trace
             /\ filled' = <<>>

\* fn poll_flush
PollFlush ==
  /\ op' = "poll_flush"
  /\ arg' = NA
  /\ res' = OkUnit
  /\ trace' = <<>>
  /\ filled' = <<>>

\* Mutant: shutdown classifies the reset reason as the write path does.
shutdown_reset_as_write(resetA) == write_reset(resetA)

\* Mutant: shutdown takes CANCEL for a clean close as well.
shutdown_reset_cancel_ok(resetA) ==
  CASE resetA.k = "pending" -> Pending
    [] resetA.k = "ok" /\ resetA.reason \in {"NO_ERROR", "CANCEL"} -> OkUnit
    [] resetA.k = "ok" /\ resetA.reason = "STREAM_CLOSED" -> IoErr("BrokenPipe", NoCause)
    [] resetA.k = "ok" /\ resetA.reason \notin {"NO_ERROR", "CANCEL", "STREAM_CLOSED"} ->
         IoErr("Other", H2Cause(H2Reason(resetA.reason)))
    [] resetA.k = "err" -> h2_to_io_error(resetA.e)

\* poll_shutdown after a failed send: the match on poll_reset
shutdown_reset(resetA) ==
  CASE resetA.k = "pending" -> Pending
    [] resetA.k = "ok" /\ resetA.reason = "NO_ERROR" -> OkUnit
    [] resetA.k = "ok" /\ resetA.reason \in {"CANCEL", "STREAM_CLOSED"} ->
         IoErr("BrokenPipe", NoCause)
    [] resetA.k = "ok" /\ resetA.reason \notin {"NO_ERROR", "CANCEL", "STREAM_CLOSED"} ->
         h2_to_io_error(H2Reason(resetA.reason))
    [] resetA.k = "err" -> h2_to_io_error(resetA.e)

\* fn poll_shutdown
poll_shutdown(sendA, resetA) ==
  LET w == write_slice(<<>>, TRUE, sendA)
  IN IF w.ret.k = "ok"
     THEN [res |-> OkUnit, trace |-> <<w.ev>>]
     ELSE [res |-> shutdown_reset(resetA),
           trace |-> <<w.ev, [c |-> "poll_reset", r |-> resetA]>>]

PollShutdown ==
  \E sendA \in SendAnswers :
    \E resetA \in (IF sendA.k = "err" THEN ResetAnswers ELSE {NA}) :
      LET r == poll_shutdown(sendA, resetA)
      IN /\ op' = "poll_shutdown"
         /\ arg' = NA
         /\ res' = r.res
         /\ trace' = r.trace
         /\ filled' = <<>>

(***************************************************************************)
(* do_ping_pong                                                            *)
(*                                                                         *)
(* Time is counted in seconds.  A timer fires when the clock reaches its   *)
(* deadline: the clock does not pass a deadline the task waits on, and     *)
(* the task's steps between two awaits take no time.                       *)
(***************************************************************************)
\* the clock stops here
MaxTime == 45

PING_INTERVAL == 10
PING_TIMEOUT == 20

InitWatchdog ==
  /\ now = 0
  /\ wpc = "grace_sleep"
  /\ deadline = PING_INTERVAL
  /\ dropped = FALSE
  /\ pings = 0
  /\ pongs = 0
  /\ pingErrs = 0
  /\ signals = 0
  /\ exitedAt = -1
  /\ exitWhy = ""

\* return: the task ends
Return(why) ==
  /\ wpc' = "exited"
  /\ exitedAt' = now
  /\ exitWhy' = why

\* tokio::time::sleep(PING_INTERVAL).await before the loop completes
GraceElapsed ==
  /\ wpc = "grace_sleep"
  /\ now = deadline
  /\ wpc' = "round_start"
  /\ UNCHANGED <<now, deadline, dropped, pings, pongs, pingErrs, signals, exitedAt, exitWhy>>

\* Mutant: the flag is not read at the top of the loop.
RoundStart_no_check ==
  /\ wpc = "round_start"
  /\ pings' = pings + 1
  /\ deadline' = now + PING_TIMEOUT
  /\ wpc' = "await_pong"
  /\ UNCHANGED <<now, dropped, pongs, pingErrs, signals, exitedAt, exitWhy>>

\* top of the loop: return if dropped is set, else send a ping and wait for
\* it under timeout(PING_TIMEOUT, ..)
RoundStart ==
  /\ wpc = "round_start"
  /\ IF dropped
     THEN /\ Return("dropped_at_round_start")
          /\ UNCHANGED <<deadline, pings>>
     ELSE /\ pings' = pings + 1
          /\ deadline' = now + PING_TIMEOUT
          /\ wpc' = "await_pong"
          /\ UNCHANGED <<exitedAt, exitWhy>>
  /\ UNCHANGED <<now, dropped, pongs, pingErrs, signals>>

\* Mutant: the timeout returns without sending the failure signal.
PingTimeout_silent ==
  /\ wpc = "await_pong"
  /\ now = deadline
  /\ Return("timeout")
  /\ UNCHANGED <<now, deadline, dropped, pings, pongs, pingErrs, signals>>

\* Mutant: the timeout sends the signal and goes round the loop again.
PingTimeout_retry ==
  /\ wpc = "await_pong"
  /\ now = deadline
  /\ signals' = signals + 1
  /\ wpc' = "round_start"
  /\ UNCHANGED <<now, deadline, dropped, pings, pongs, pingErrs, exitedAt, exitWhy>>

\* Err(_) arm: the timeout elapsed; tx.send(()) and return
PingTimeout ==
  /\ wpc = "await_pong"
  /\ now = deadline
  /\ signals' = signals + 1
  /\ Return("timeout")
  /\ UNCHANGED <<now, deadline, dropped, pings, pongs, pingErrs>>

\* Ok(Ok(_)) arm: pong received; sleep(PING_INTERVAL) and loop
PongReceived ==
  /\ wpc = "await_pong"
  /\ now <= deadline
  /\ pongs' = pongs + 1
  /\ deadline' = now + PING_INTERVAL
  /\ wpc' = "interval_sleep"
  /\ UNCHANGED <<now, dropped, pings, pingErrs, signals, exitedAt, exitWhy>>

\* Mutant: a ping error signals without reading the flag.
PingError_always_signals ==
  /\ wpc = "await_pong"
  /\ now <= deadline
  /\ pingErrs' = pingErrs + 1
  /\ Return("ping_error") /\ signals' = signals + 1
  /\ UNCHANGED <<now, deadline, dropped, pings, pongs>>

\* Ok(Err(e)) arm: the ping failed; return silently if dropped is set, else
\* tx.send(()) and return
PingError ==
  /\ wpc = "await_pong"
  /\ now <= deadline
  /\ pingErrs' = pingErrs + 1
  /\ IF dropped
     THEN Return("ping_error_dropped") /\ UNCHANGED signals
     ELSE Return("ping_error") /\ signals' = signals + 1
  /\ UNCHANGED <<now, deadline, dropped, pings, pongs>>

\* the sleep after a pong completes
IntervalElapsed ==
  /\ wpc = "interval_sleep"
  /\ now = deadline
  /\ wpc' = "round_start"
  /\ UNCHANGED <<now, deadline, dropped, pings, pongs, pingErrs, signals, exitedAt, exitWhy>>

\* the connection driver sets the flag it shares with the watchdog
SetDropped ==
  /\ ~dropped
  /\ dropped' = TRUE
  /\ UNCHANGED <<now, wpc, deadline, pings, pongs, pingErrs, signals, exitedAt, exitWhy>>

\* one second passes
Tick ==
  /\ now < MaxTime
  /\ wpc # "round_start"
  /\ wpc \in {"grace_sleep", "await_pong", "interval_sleep"} => now < deadline
  /\ now' = now + 1
  /\ UNCHANGED <<wpc, deadline, dropped, pings, pongs, pingErrs, signals, exitedAt, exitWhy>>


(***************************************************************************)
(* A stream read call after call: RWStream and TokioH2Stream               *)
(***************************************************************************)
\* most bytes one stream carries
MaxStreamBytes == 4

RecvOpen == [k |-> "open"]
RecvEnded == [k |-> "ended"]
RecvReset(e) == [k |-> "err", e |-> e]

\* the next n bytes of a stream that has yielded m: byte i of the stream is i
StreamChunk(m, n) == [i \in 1..n |-> m + i]

InitReader ==
  /\ recv_stream = RecvOpen
  /\ recvd = <<>>
  /\ rw_buf = <<>>
  /\ delivered = <<>>
  /\ overflowed = {}

\* what RecvStream::poll_data answers last in a call: nothing but None once
\* the stream has ended, the same error once it is reset
RecvFinals(rs, rcv) ==
  CASE rs.k = "ended" -> {AnsNone}
    [] rs.k = "err" -> {AnsErr(rs.e)}
    [] rs.k = "open" ->
         {AnsPending, AnsNone, AnsData(<<>>, TRUE)}
           \cup {AnsData(StreamChunk(Len(rcv), n), eos) :
                   n \in 1..(IF MaxStreamBytes - Len(rcv) < MaxChunk
                             THEN MaxStreamBytes - Len(rcv) ELSE MaxChunk),
                   eos \in BOOLEAN}
           \cup {AnsErr(e) : e \in H2Errors}

\* spurious empty chunks come from an open stream only
RecvSpurious(rs) == IF rs.k = "open" THEN 0..MaxSpurious ELSE {0}

\* the RecvStream after it answered f
RecvAfter(rs, f) ==
  CASE f.k = "none" -> RecvEnded
    [] f.k = "data" -> IF f.eos THEN RecvEnded ELSE rs
    [] f.k = "err" -> RecvReset(f.e)
    [] f.k = "pending" -> rs

RecvBytes(f) == IF f.k = "data" THEN f.bytes ELSE <<>>

\* Mutant: a chunk is pulled at every call, whatever is left over.
rw_needs_pull_always(b) == TRUE

\* if this.buf.is_empty()
rw_needs_pull(b) == b = <<>>

\* Mutant: split_to instead of split_off, the copied front is kept.
rw_split_off_front(b, cnt) == SubSeq(b, 1, cnt)

\* Bytes::split_off(cnt): the bytes from cnt on
rw_split_off(b, cnt) == SubSeq(b, cnt + 1, Len(b))

\* the tail of RWStream::poll_read: copy min(buf.len(), remaining) bytes
\* from the front of buf, keep the rest
rw_copy(b, rb) ==
  LET cnt == IF Len(b) < rb.remaining THEN Len(b) ELSE rb.remaining
  IN [put |-> SubSeq(b, 1, cnt), rest |-> rw_split_off(b, cnt)]

\* RWStream::poll_read
RWPollRead ==
  \E rb \in ReadBufs :
    /\ op' = "rw_poll_read"
    /\ arg' = rb
    /\ overflowed' = overflowed
    /\ IF rw_needs_pull(rw_buf)
       THEN \E n \in RecvSpurious(recv_stream), f \in RecvFinals(recv_stream, recvd) :
              LET r == poll_bytes(Polls(n, f), <<>>)
                  c == rw_copy(r.res.bytes, rb)
              IN /\ trace' = r.trace
                 /\ recv_stream' = RecvAfter(recv_stream, f)
                 /\ recvd' = recvd \o RecvBytes(f)
                 /\ IF r.res.k = "ok_bytes"
                    THEN /\ res' = OkUnit
                         /\ filled' = rb.filled \o c.put
                         /\ delivered' = delivered \o c.put
                         /\ rw_buf' = c.rest
                    ELSE /\ res' = r.res
                         /\ filled' = rb.filled
                         /\ delivered' = delivered
                         /\ rw_buf' = rw_buf
       ELSE LET c == rw_copy(rw_buf, rb)
            IN /\ trace' = <<>>
               /\ recv_stream' = recv_stream
               /\ recvd' = recvd
               /\ res' = OkUnit
               /\ filled' = rb.filled \o c.put
               /\ delivered' = delivered \o c.put
               /\ rw_buf' = c.rest

\* TokioH2Stream::poll_read on the same stream, call after call
TokioRead ==
  \E rb \in ReadBufs, n \in RecvSpurious(recv_stream),
     f \in RecvFinals(recv_stream, recvd) :
    LET r == poll_bytes(Polls(n, f), <<>>)
        m == tokio_read_map(r.res, rb)
    IN /\ op' = "tokio_read"
       /\ arg' = rb
       /\ res' = m.res
       /\ trace' = r.trace
       /\ filled' = m.filled
       /\ recv_stream' = RecvAfter(recv_stream, f)
       /\ recvd' = recvd \o RecvBytes(f)
       /\ rw_buf' = rw_buf
       /\ delivered' = delivered \o SubSeq(m.filled, Len(rb.filled) + 1, Len(m.filled))
       /\ overflowed' =
            IF m.res.k = "err" /\ m.res.cause.c = "overflow"
            THEN overflowed \cup {RecvBytes(f)[i] : i \in 1..Len(RecvBytes(f))}
            ELSE overflowed
(***************************************************************************)
(* Specifications                                                          *)
(***************************************************************************)
Init ==
  /\ InitCounter
  /\ InitStream
  /\ InitReader
  /\ InitWatchdog

\* the drop counter of one connection
Next ==
  \/ (\E s \in Streams : Admit(s)) /\ UNCHANGED <<streamVars, readerVars, watchdogVars>>
  \/ (\E s \in Streams : DropCounterNew(s)) /\ UNCHANGED <<streamVars, readerVars, watchdogVars>>
  \/ (\E s \in Streams, h \in Halves : DropIntoInner(s, h))
       /\ UNCHANGED <<streamVars, readerVars, watchdogVars>>
  \/ (\E s \in Streams, h \in Halves : DropFetchSub(s, h))
       /\ UNCHANGED <<streamVars, readerVars, watchdogVars>>
  \/ (\E s \in Streams, h \in Halves : DropOtherRemains(s, h))
       /\ UNCHANGED <<streamVars, readerVars, watchdogVars>>

Spec == Init /\ [][Next]_vars

\* the calls on one H2Stream
NextStream ==
  \/ PollBytes /\ UNCHANGED <<counterVars, readerVars, watchdogVars>>
  \/ TokioPollRead /\ UNCHANGED <<counterVars, readerVars, watchdogVars>>
  \/ PollWriteBuf /\ UNCHANGED <<counterVars, readerVars, watchdogVars>>
  \/ PollFlush /\ UNCHANGED <<counterVars, readerVars, watchdogVars>>
  \/ PollShutdown /\ UNCHANGED <<counterVars, readerVars, watchdogVars>>

SpecStream == Init /\ [][NextStream]_vars

\* one stream read through RWStream until it ends
NextRW == RWPollRead /\ UNCHANGED <<counterVars, watchdogVars>>

SpecRW == Init /\ [][NextRW]_vars

\* one stream read through TokioH2Stream until it ends
NextTokio == TokioRead /\ UNCHANGED <<counterVars, watchdogVars>>

SpecTokio == Init /\ [][NextTokio]_vars

\* the watchdog of one connection, its connection and the clock
NextWatchdog ==
  \/ GraceElapsed /\ UNCHANGED <<counterVars, streamVars, readerVars>>
  \/ RoundStart /\ UNCHANGED <<counterVars, streamVars, readerVars>>
  \/ PingTimeout /\ UNCHANGED <<counterVars, streamVars, readerVars>>
  \/ PongReceived /\ UNCHANGED <<counterVars, streamVars, readerVars>>
  \/ PingError /\ UNCHANGED <<counterVars, streamVars, readerVars>>
  \/ IntervalElapsed /\ UNCHANGED <<counterVars, streamVars, readerVars>>
  \/ SetDropped /\ UNCHANGED <<counterVars, streamVars, readerVars>>
  \/ Tick /\ UNCHANGED <<counterVars, streamVars, readerVars>>

SpecWatchdog == Init /\ [][NextWatchdog]_vars

\* the watchdog with its scheduling: the clock advances, and the runtime
\* resumes the task when its timer fires and runs it to its next await
WatchdogStep(A) == A /\ UNCHANGED <<counterVars, streamVars, readerVars>>

SpecWatchdogFair ==
  /\ SpecWatchdog
  /\ WF_vars(WatchdogStep(Tick))
  /\ WF_vars(WatchdogStep(GraceElapsed))
  /\ WF_vars(WatchdogStep(RoundStart))
  /\ WF_vars(WatchdogStep(PingTimeout))
  /\ WF_vars(WatchdogStep(IntervalElapsed))

(***************************************************************************)
(* Claims about the drop counter (checked under Spec)                      *)
(***************************************************************************)
Minted(s) == st[s] = "minted"
BothDropped(s) == Minted(s) /\ \A h \in Halves : tok[s][h] = "dropped"
BothLive(s) == Minted(s) /\ \A h \in Halves : tok[s][h] = "live"
\* an admission between its increment and its mint, or a drop between its
\* ownership test and its fetch_sub
InFlight(s) == st[s] = "admitted" \/ \E h \in Halves : tok[s][h] = "fetch_sub"
NoneInFlight == \A s \in Streams : ~InFlight(s)

\* C1: for every stream minted by DropCounter::new and every order and
\* interleaving of its two drops, the count is decremented at most once
\* while the drops run and exactly once when both tokens have been dropped.
C1_ExactlyOnce ==
  \A s \in Streams :
    /\ decs[s] <= 1
    /\ BothDropped(s) => decs[s] = 1

\* C1 witness: both tokens of a stream dropped, the write half first, while
\* another stream's two drops overlapped (both took the marker before either
\* finished).
C1_Witness ==
  \E s, u \in Streams :
    /\ s # u
    /\ BothDropped(s) /\ relOrder[s] = <<"write", "read">>
    /\ tok[u]["read"] = "fetch_sub" /\ tok[u]["write"] = "other_remains"

\* C2: the decrement is performed by the token released second; the first
\* release leaves the count unchanged, so a stream with a half still live
\* has not been decremented.
C2_DecrementBySecondRelease ==
  \A s \in Streams :
    /\ decBy[s] # "none" => (Len(relOrder[s]) = 2 /\ decBy[s] = relOrder[s][2])
    /\ (Minted(s) /\ \E h \in Halves : tok[s][h] = "live") => decs[s] = 0

C4_NoWrapZeroIffAllReleased ==
  /\ ~wrapped
  /\ active_count <= MaxStreams
  /\ NoneInFlight =>
       (active_count = 0 <=> \A s \in Streams : Minted(s) => BothDropped(s))

\* The part of C4 the code keeps: the count never wraps.
CountNeverWraps == ~wrapped /\ active_count <= MaxStreams

(***************************************************************************)
(* Claims about the stream halves (checked under SpecStream)               *)
(***************************************************************************)
PollDataIdx == {i \in 1..Len(trace) : trace[i].c = "poll_data"}
ReleaseIdx == {i \in 1..Len(trace) : trace[i].c = "release_capacity"}
WriteSliceIdx == {i \in 1..Len(trace) : trace[i].c = "write_slice"}
ResetIdx == {i \in 1..Len(trace) : trace[i].c = "poll_reset"}

\* the last answer of poll_data in the call, the answer of poll_reset
LastData ==
  IF PollDataIdx = {} THEN NA
  ELSE trace[CHOOSE i \in PollDataIdx : \A j \in PollDataIdx : j <= i].r
ResetAnswer == IF ResetIdx = {} THEN NA ELSE trace[CHOOSE i \in ResetIdx : TRUE].r

CleanReasons == {"NO_ERROR", "CANCEL"}
\* the call o read a stream error with a reason of rs from poll_data
ReadSaw(o, rs) == op = o /\ LastData.k = "err" /\ LastData.e.reason \in rs
\* the call o was answered a reset reason of rs by poll_reset
ResetSaw(o, rs) == op = o /\ ResetAnswer.k = "ok" /\ ResetAnswer.reason \in rs
IsBrokenPipe == res.k = "err" /\ res.kind = "BrokenPipe"

\* C5 (as claimed): a reset with reason NO_ERROR or CANCEL is never a
\* failure: poll_bytes returns an empty chunk, the reset-reason fallbacks of
\* poll_write_buf and poll_shutdown return success.
C5_CleanResetNeverFails ==
  /\ ReadSaw("poll_bytes", CleanReasons) => res = OkBytes(<<>>)
  /\ ResetSaw("poll_write_buf", CleanReasons) => res.k = "ok_n"
  /\ ResetSaw("poll_shutdown", CleanReasons) => res = OkUnit

\* C5 (amended): NO_ERROR or CANCEL read by poll_bytes gives an empty chunk
\* and no error (through the zero-copy wrapper: success, nothing written),
\* and NO_ERROR in the fallback of poll_shutdown gives success; in the
\* fallback of poll_write_buf both reasons, and in the fallback of
\* poll_shutdown CANCEL, give a broken-pipe error.
C5_CleanResetAsCoded ==
  /\ ReadSaw("poll_bytes", CleanReasons) => res = OkBytes(<<>>)
  /\ ReadSaw("tokio_poll_read", CleanReasons) => (res = OkUnit /\ filled = arg.filled)
  /\ ResetSaw("poll_shutdown", {"NO_ERROR"}) => res = OkUnit
  /\ ResetSaw("poll_write_buf", CleanReasons) => res = IoErr("BrokenPipe", NoCause)
  /\ ResetSaw("poll_shutdown", {"CANCEL"}) => res = IoErr("BrokenPipe", NoCause)

\* C5 witness: a write whose send failed and whose reset reason is NO_ERROR
C5_Witness ==
  /\ ResetSaw("poll_write_buf", {"NO_ERROR"})
  /\ WriteSliceIdx # {}
  /\ IsBrokenPipe

\* the write_slice calls of the call whose send_data failed with reason r
SliceFailedWith(r) ==
  {i \in WriteSliceIdx : trace[i].send.k = "err" /\ trace[i].send.e.reason = r}

\* C6 (as claimed): reason STREAM_CLOSED gives a broken-pipe error on every
\* path that classifies it: poll_bytes, h2_to_io_error as write_slice applies
\* it, and the fallbacks of poll_write_buf and poll_shutdown.
C6_StreamClosedIsBrokenPipe ==
  /\ ReadSaw("poll_bytes", {"STREAM_CLOSED"}) => IsBrokenPipe
  /\ \A i \in SliceFailedWith("STREAM_CLOSED") :
       trace[i].ret.k = "err" /\ trace[i].ret.kind = "BrokenPipe"
  /\ ResetSaw("poll_write_buf", {"STREAM_CLOSED"}) => IsBrokenPipe
  /\ ResetSaw("poll_shutdown", {"STREAM_CLOSED"}) => IsBrokenPipe

\* C6 (amended): reason STREAM_CLOSED gives a broken-pipe error from
\* poll_bytes and from the fallbacks of poll_write_buf and poll_shutdown;
\* h2_to_io_error, as write_slice applies it, wraps it as an error of kind
\* Other.
C6_StreamClosedAsCoded ==
  /\ ReadSaw("poll_bytes", {"STREAM_CLOSED"}) => IsBrokenPipe
  /\ ReadSaw("tokio_poll_read", {"STREAM_CLOSED"}) => IsBrokenPipe
  /\ \A i \in SliceFailedWith("STREAM_CLOSED") :
       trace[i].ret = IoErr("Other", H2Cause(H2Reason("STREAM_CLOSED")))
  /\ ResetSaw("poll_write_buf", {"STREAM_CLOSED"}) => IsBrokenPipe
  /\ ResetSaw("poll_shutdown", {"STREAM_CLOSED"}) => IsBrokenPipe

\* C6 witness: a write whose send_data failed with STREAM_CLOSED and whose
\* reset reason is STREAM_CLOSED
C6_Witness ==
  /\ SliceFailedWith("STREAM_CLOSED") # {}
  /\ ResetSaw("poll_write_buf", {"STREAM_CLOSED"})

\* C7: when poll_bytes returns a non-empty chunk of N bytes, the last two
\* calls it made on the receive stream are the poll_data that yielded the
\* chunk and then release_capacity(N); every release_capacity of a call is
\* that one, for the chunk the call returns, so nothing is released after a
\* spurious empty chunk, the end of the stream or an error.
C7_CreditReleasedForReturnedChunk ==
  op = "poll_bytes" =>
    /\ (res.k = "ok_bytes" /\ res.bytes # <<>>) => ReleaseIdx = {Len(trace)}
    /\ \A i \in ReleaseIdx :
         /\ i = Len(trace) /\ i > 1
         /\ trace[i - 1].c = "poll_data"
         /\ trace[i - 1].r.k = "data" /\ trace[i - 1].r # Spurious
         /\ res = OkBytes(trace[i - 1].r.bytes)
         /\ trace[i].n = Len(res.bytes)

\* C7 witness: a chunk of two bytes returned after one spurious empty chunk
C7_Witness ==
  /\ op = "poll_bytes"
  /\ res = OkBytes(Chunk(2))
  /\ Len(trace) = 3 /\ trace[1].r = Spurious

\* C8: a push of a non-empty chunk of L bytes reserves capacity for L
\* bytes; when g bytes are granted, 0 < g <= L, and the send succeeds, the
\* call returns g and its one send is the first g bytes without the
\* end-of-stream mark; the count returned never exceeds L.
C8_PartialWrite ==
  (op = "poll_write_buf" /\ arg.buf # <<>>) =>
    LET L == Len(arg.buf)
    IN /\ trace[1] = [c |-> "reserve_capacity", n |-> L]
       /\ Cardinality(WriteSliceIdx) <= 1
       /\ res.k = "ok_n" => res.n <= L
       /\ \A g \in 1..L :
            (/\ trace[2] = [c |-> "poll_capacity", r |-> AnsCap(g)]
             /\ \E i \in WriteSliceIdx : trace[i].send = AnsOk)
            => /\ res = OkN(g)
               /\ \A i \in WriteSliceIdx :
                    trace[i].bytes = SubSeq(arg.buf, 1, g) /\ trace[i].eos = FALSE

\* C8 witness: three bytes pushed, one granted and sent
C8_Witness ==
  /\ op = "poll_write_buf"
  /\ arg = [buf |-> Chunk(3)]
  /\ res = OkN(1)
  /\ WriteSliceIdx # {}

\* C9: a zero-copy read that receives a chunk longer than the remaining
\* space of the caller's buffer returns an error and leaves the buffer as
\* it was; otherwise the whole chunk is appended.
C9_ZeroCopyOverflow ==
  (op = "tokio_poll_read" /\ LastData.k = "data") =>
    IF arg.remaining < Len(LastData.bytes)
    THEN res.k = "err" /\ res.cause.c = "overflow" /\ filled = arg.filled
    ELSE res = OkUnit /\ filled = arg.filled \o LastData.bytes

\* C9 witness: a chunk of two bytes read into a buffer that holds one byte
\* and has room for one more
C9_Witness ==
  /\ op = "tokio_poll_read"
  /\ LastData.k = "data" /\ Len(LastData.bytes) = 2
  /\ arg = [filled |-> <<0>>, remaining |-> 1]
  /\ res.k = "err"

\* C13: poll_bytes returns a ready empty chunk only at the end of the
\* stream: after poll_data answered None, an empty chunk at end of stream, or
\* a reset with reason NO_ERROR or CANCEL.  An empty chunk that is not at end
\* of stream is never the last answer a call uses: the next call the same
\* poll_bytes makes is poll_data again, with no release in between.
C13_EmptyOnlyAtEnd ==
  /\ (op = "poll_bytes" /\ res = OkBytes(<<>>)) =>
       \/ LastData = AnsNone
       \/ LastData = AnsData(<<>>, TRUE)
       \/ (LastData.k = "err" /\ LastData.e.reason \in CleanReasons)
  /\ op \in {"poll_bytes", "tokio_poll_read"} =>
       \A i \in PollDataIdx :
         trace[i].r = Spurious => (i < Len(trace) /\ trace[i + 1].c = "poll_data")

\* C13 witness: a spurious empty chunk, then an empty chunk at end of stream
C13_Witness ==
  /\ op = "poll_bytes"
  /\ Len(trace) = 3
  /\ trace[1].r = Spurious
  /\ trace[2].r = AnsData(<<>>, TRUE)
  /\ res = OkBytes(<<>>)

\* the answer of poll_capacity, the error of the failed send_data, in the call
CapAnswer ==
  IF Len(trace) >= 2 /\ trace[2].c = "poll_capacity" THEN trace[2].r ELSE NA
SendFailed == \E i \in WriteSliceIdx : trace[i].send.k = "err"

\* what the reset-reason match of poll_write_buf must return for an answer
\* of poll_reset, written out
WriteFailureResult(a) ==
  CASE a.k = "pending" -> Pending
    [] a.k = "ok" /\ a.reason \in {"NO_ERROR", "CANCEL", "STREAM_CLOSED"} ->
         IoErr("BrokenPipe", NoCause)
    [] a.k = "ok" /\ a.reason \notin {"NO_ERROR", "CANCEL", "STREAM_CLOSED"} ->
         IoErr("Other", H2Cause(H2Reason(a.reason)))
    [] a.k = "err" /\ a.e.io -> IoErr(a.e.iokind, IoCause)
    [] a.k = "err" /\ ~a.e.io -> IoErr("Other", H2Cause(a.e))

NeverAnswered == pongs = 0 /\ pingErrs = 0 /\ ~dropped

\* C10: on a connection that never answers a ping, with the teardown flag
\* unset, the watchdog sends exactly one failure signal no later than
\* 10 s + 10 s + 20 s after it started and exits; it issues exactly one ping.
\* Until it exits it has sent no signal, and it does not outstay that time.
C10_TimeoutSignalsOnce ==
  NeverAnswered =>
    /\ pings <= 1
    /\ wpc = "exited" =>
         /\ signals = 1 /\ pings = 1
         /\ exitedAt <= PING_INTERVAL + PING_INTERVAL + PING_TIMEOUT
    /\ wpc # "exited" =>
         /\ signals = 0
         /\ now <= PING_INTERVAL + PING_INTERVAL + PING_TIMEOUT

\* C10 witness: the watchdog exited on the timeout of its first ping, and
\* time has passed since
C10_Witness ==
  /\ NeverAnswered
  /\ wpc = "exited" /\ exitWhy = "timeout"
  /\ now > PING_INTERVAL + PING_INTERVAL + PING_TIMEOUT

\* C11: when the teardown flag is set at the top of the loop (the first
\* round after the grace sleep included), the watchdog's next step is its
\* return, with no ping issued; having returned that way it has sent no
\* failure signal, then or later.
C11_SilentExitAtRoundStart ==
  /\ [][(wpc = "round_start" /\ dropped) =>
          (wpc' = "exited" /\ pings' = pings /\ signals' = 0)]_vars
  /\ [](exitWhy = "dropped_at_round_start" => (wpc = "exited" /\ signals = 0))

\* C11 witness: the flag was set during the grace sleep; the watchdog
\* returned at its first round without a ping, and time has passed since
C11_Witness ==
  /\ wpc = "exited" /\ exitWhy = "dropped_at_round_start"
  /\ pings = 0 /\ exitedAt = PING_INTERVAL
  /\ now > exitedAt

\* C16: a ping that ends with an error makes the watchdog return at once: with
\* the flag set at that moment no signal is sent, otherwise exactly one is;
\* no ping or signal follows.
C16_PingErrorOutcome ==
  /\ [][pingErrs' # pingErrs =>
          /\ wpc' = "exited" /\ pings' = pings
          /\ signals' = signals + (IF dropped THEN 0 ELSE 1)]_vars
  /\ [](exitWhy \in {"ping_error", "ping_error_dropped"} =>
          /\ wpc = "exited"
          /\ signals = (IF exitWhy = "ping_error" THEN 1 ELSE 0))
  /\ [][(exitWhy \in {"ping_error", "ping_error_dropped"}) =>
          (pings' = pings /\ signals' = signals)]_vars

\* C16 witness: the second ping ended with an error after the flag was set
C16_Witness ==
  /\ wpc = "exited" /\ exitWhy = "ping_error_dropped"
  /\ pongs = 1 /\ pings = 2 /\ signals = 0
  /\ now > exitedAt

\* C17: in every execution the failure signal is sent at most once; once it
\* is sent, or the flag was seen set at a round start, the watchdog has
\* returned, and a watchdog that has returned does nothing more.
C17_SignalOnceThenNothing ==
  /\ [](signals <= 1)
  /\ []((signals = 1 \/ exitWhy = "dropped_at_round_start") => wpc = "exited")
  /\ [][wpc = "exited" =>
          UNCHANGED <<wpc, deadline, pings, pongs, pingErrs, signals, exitedAt, exitWhy>>]_vars

\* C17 witness: a pong, then a timeout: one signal, and time has passed since
C17_Witness ==
  /\ wpc = "exited" /\ exitWhy = "timeout"
  /\ pongs = 1 /\ signals = 1
  /\ now > exitedAt

\* C19 (checked under SpecWatchdogFair): once the teardown flag is set, the
\* watchdog returns: after the sleep it is in, or after the ping in flight
\* ends with a pong (and the sleep that follows), an error or the timeout.
\* The flag is never cleared, and no ping is started in a step that begins
\* with the flag set.  The clock of the model stops at MaxTime, so the
\* return is claimed where a timeout and a sleep still fit before it.
C19_ExitsAfterTeardown ==
  /\ (dropped /\ now + PING_TIMEOUT + PING_INTERVAL <= MaxTime) ~> (wpc = "exited")
  /\ [][dropped => (dropped' /\ pings' = pings)]_vars

\* C19 witness: the flag was set while the first ping was in flight, the pong
\* came, and the watchdog returned at the next round start
C19_Witness ==
  /\ wpc = "exited" /\ exitWhy = "dropped_at_round_start"
  /\ pings = 1 /\ pongs = 1 /\ signals = 0
  /\ exitedAt <= MaxTime - PING_INTERVAL

(***************************************************************************)
(* Claims: reading a stream call after call                                *)
(***************************************************************************)
\* the call returned Ok and put nothing into the caller's buffer
ZeroLengthRead == res = OkUnit /\ filled = arg.filled

\* the chunk the call pulled: the bytes poll_bytes returned, if it was called
PulledChunk == IF LastData.k = "data" THEN LastData.bytes ELSE <<>>

\* the bytes of s that are not in the set lost, in order
Without(s, lost) ==
  LET keep == {i \in 1..Len(s) : s[i] \notin lost}
      RECURSIVE pick(_)
      pick(i) == IF i > Len(s) THEN <<>>
                 ELSE IF i \in keep THEN <<s[i]>> \o pick(i + 1) ELSE pick(i + 1)
  IN pick(1)

\* C12: reading through RWStream::poll_read preserves the byte stream.  At
\* every moment the bytes put into the callers' buffers followed by the
\* leftover are exactly the bytes received, in order, none lost and none
\* twice; a read into a buffer with room returns zero bytes only when the
\* stream is over and everything was delivered; and once the stream has ended
\* cleanly and the leftover is empty, every read is a zero-length read.
C12_ByteStreamPreserved ==
  /\ [](delivered \o rw_buf = recvd)
  /\ []((op = "rw_poll_read" /\ ZeroLengthRead /\ arg.remaining > 0) =>
          (recv_stream.k # "open" /\ rw_buf = <<>> /\ delivered = recvd))
  /\ [][(recv_stream.k = "ended" /\ rw_buf = <<>>) =>
          (ZeroLengthRead' /\ delivered' = delivered /\ recvd' = recvd)]_vars

\* C12 witness: a stream of several chunks read to its end, then the
\* terminal zero-length read
C12_Witness ==
  /\ op = "rw_poll_read"
  /\ recv_stream = RecvEnded
  /\ recvd = StreamChunk(0, MaxStreamBytes)
  /\ delivered = recvd
  /\ arg.remaining > 0
  /\ ZeroLengthRead
  /\ trace = <<[c |-> "poll_data", r |-> AnsNone]>>

\* C18: RWStream holds the leftover of at most one chunk.  poll_read calls
\* the read half exactly when the leftover is empty; it copies exactly
\* min(length, remaining space) bytes from the front of the leftover (of the
\* chunk just pulled when it pulled one), and the leftover afterwards is the
\* rest of it; a pull that is pending or fails leaves everything as it was.
C18_OneLeftoverChunk ==
  /\ [][LET pulled == rw_buf = <<>>
            src == IF pulled THEN PulledChunk' ELSE rw_buf
            cnt == IF Len(src) < arg'.remaining THEN Len(src) ELSE arg'.remaining
        IN /\ pulled <=> trace' # <<>>
           /\ pulled => PollDataIdx' # {}
           /\ ~pulled => res' = OkUnit
           /\ res' = OkUnit =>
                /\ filled' = arg'.filled \o SubSeq(src, 1, cnt)
                /\ rw_buf' = SubSeq(src, cnt + 1, Len(src))
           /\ res' # OkUnit => (rw_buf' = rw_buf /\ filled' = arg'.filled)]_vars
  /\ [](Len(rw_buf) <= MaxChunk)

\* C18 witness: a chunk of three bytes pulled earlier, one byte copied from
\* its leftover without calling the read half, one byte left
C18_Witness ==
  /\ op = "rw_poll_read"
  /\ trace = <<>>
  /\ arg.remaining = 1
  /\ delivered = <<1, 2>>
  /\ rw_buf = <<3>>
  /\ recvd = <<1, 2, 3>>

\* the call returned the overflow error of TokioH2Stream::poll_read
Overflow == res.k = "err" /\ res.cause.c = "overflow"

\* C20: when TokioH2Stream::poll_read returns the overflow error, the chunk
\* was taken from the stream by poll_data and its credit released by the
\* last h2 call of that read, nothing was put into the buffer, and the chunk
\* is kept nowhere: the bytes delivered at any time are the received bytes
\* without the chunks that overflowed.
C20_OverflowDropsChunk ==
  /\ (op = "tokio_read" /\ Overflow) =>
       /\ LastData.k = "data"
       /\ Len(LastData.bytes) > arg.remaining
       /\ trace[Len(trace)] = [c |-> "release_capacity", n |-> Len(LastData.bytes)]
       /\ filled = arg.filled
       /\ \A i \in 1..Len(LastData.bytes) :
            /\ LastData.bytes[i] \in overflowed
            /\ LastData.bytes[i] = recvd[Len(recvd) - Len(LastData.bytes) + i]
  /\ op = "tokio_read" => delivered = Without(recvd, overflowed)

\* C20 witness: the second chunk overflowed, the third was delivered after it
C20_Witness ==
  /\ op = "tokio_read"
  /\ recvd = <<1, 2, 3, 4>>
  /\ overflowed = {2, 3}
  /\ delivered = <<1, 4>>
  /\ res = OkUnit
====
